---- MODULE Spec2Model ----
(***************************************************************************)
(* Model of decaffeinate's parse(): the pre-order pass that attaches a     *)
(* scope to every node (attachScope) and reconciles raw/range/line/column  *)
(* with the source text (fixRange, shrinkPastParentheses), and of the      *)
(* stand-alone predicate isSurroundedBy.                                   *)
(***************************************************************************)
EXTENDS Integers, Sequences, FiniteSets, TLC

VARIABLES source, shape, reported, nodes, scopes, cur, pc, adjustPosition,
          rounds, skipped, error, query

vars == <<source, shape, reported, nodes, scopes, cur, pc, adjustPosition,
          rounds, skipped, error, query>>

\* ---------------------------------------------------------------- bounds
MaxLen == 3

\* ------------------------------------------------------------- JS values
Alphabet == {"(", ")", "a"}
Undefined == "undefined"
None == <<>>
Some(x) == <<x>>
NotFound == -1
Window == 3

Min(a, b) == IF a < b THEN a ELSE b
Max(a, b) == IF a > b THEN a ELSE b

\* All strings over S of length at most n, as tuples of characters.
RECURSIVE SeqsOfLen(_, _)
SeqsOfLen(S, k) ==
  IF k = 0 THEN {<<>>} ELSE {Append(q, c) : q \in SeqsOfLen(S, k - 1), c \in S}
SeqsUpTo(S, n) == UNION {SeqsOfLen(S, k) : k \in 0..n}
\* The source texts: one line, or an empty first line and a second line.
Sources ==
  SeqsUpTo(Alphabet, MaxLen)
  \cup {<<"\n">> \o s : s \in SeqsUpTo(Alphabet, MaxLen - 2)}

\* String.prototype.slice: negative indices count from the end, both ends
\* are clamped to the string, an empty interval gives "".
SliceIndex(len, i) == IF i < 0 THEN Max(len + i, 0) ELSE Min(i, len)
Slice(s, i, j) ==
  LET from == SliceIndex(Len(s), i)
      to == SliceIndex(Len(s), j)
  IN IF from < to THEN SubSeq(s, from + 1, to) ELSE <<>>

\* s[i]: undefined outside the string.
CharAt(s, i) == IF i \in 0..(Len(s) - 1) THEN s[i + 1] ELSE Undefined

\* ------------------------------------------------- collaborators (leaves)
\* buildLineAndColumnMap: the offset of the first character of every line.
RECURSIVE LineStartsFrom(_, _)
LineStartsFrom(s, i) ==
  IF i > Len(s) THEN <<>>
  ELSE (IF s[i] = "\n" THEN <<i>> ELSE <<>>) \o LineStartsFrom(s, i + 1)
LineStarts(s) == <<0>> \o LineStartsFrom(s, 1)

\* map.getOffset(line, column), both 0-based.
getOffset(s, line, column) == LineStarts(s)[line + 1] + column

getCounterpart(character) ==
  CASE character = "(" -> ")"
    [] character = "[" -> "]"
    [] OTHER -> Undefined

\* findCounterpartCharacter(character, text, index): depth counting from
\* index; the offset where the depth returns to zero, NotFound otherwise.
RECURSIVE CounterpartFrom(_, _, _, _)
CounterpartFrom(character, text, index, level) ==
  IF index >= Len(text) THEN NotFound
  ELSE IF text[index + 1] = getCounterpart(character)
       THEN (IF level - 1 = 0 THEN index
             ELSE CounterpartFrom(character, text, index + 1, level - 1))
  ELSE IF text[index + 1] = character
       THEN CounterpartFrom(character, text, index + 1, level + 1)
  ELSE CounterpartFrom(character, text, index + 1, level)
findCounterpartCharacter(character, text, index) ==
  CounterpartFrom(character, text, index, 0)

\* ------------------------------------------------------------ tree shapes
\* A shape lists the nodes in the walker's pre-order; up is the index of
\* the parent (0 for the root) and slot the parent's property holding it.
N(type, up, slot) == [type |-> type, up |-> up, slot |-> slot]
Shapes ==
  << << N("Program", 0, "root"), N("Function", 1, "body"),
        N("BoundFunction", 2, "body"), N("Identifier", 3, "body") >>,
     << N("Program", 0, "root"), N("Conditional", 1, "body"),
        N("LogicalNotOp", 2, "condition"), N("Identifier", 3, "expression") >>,
     << N("Program", 0, "root"), N("While", 1, "body"),
        N("Identifier", 2, "condition") >>,
     << N("Program", 0, "root"), N("ForIn", 1, "body"),
        N("Int", 2, "step") >>,
     << N("Program", 0, "root"), N("PlusOp", 1, "body"),
        N("Identifier", 2, "left"), N("Identifier", 2, "right") >>,
     << N("Program", 0, "root"), N("ConcatOp", 1, "body") >> >>

\* node[slot] of node p in shape t: the child's index, 0 when there is none.
Child(t, p, slot) ==
  LET cs == {c \in 1..Len(t) : t[c].up = p /\ t[c].slot = slot}
  IN IF cs = {} THEN 0 ELSE CHOOSE c \in cs : TRUE

\* ------------------------------------------- what the parser may report
\* coffeeScriptParse(source, {raw: true}).toBasicObject(): raw and range may
\* each be missing, and line/column need not point at the text.
Spans(s) == {<<a, b>> \in (0..Len(s)) \X (0..Len(s)) : a <= b}
Report(hasRaw, raw, range, line, column) ==
  [hasRaw |-> hasRaw, raw |-> raw, range |-> range,
   line |-> line, column |-> column]
Lines(s) == 1..Len(LineStarts(s))
Columns(s) == 1..(Len(s) + 1)

\* Program and statement-level containers: the whole text.
WholeReports(s) == {Report(TRUE, Some(s), Some(<<0, Len(s)>>), 1, 1)}
\* Any raw occurring in the text, any range, any position.
FullReports(s) ==
  {Report(TRUE, Some(Slice(s, sp[1], sp[2])), rg, l, c) :
     sp \in Spans(s), rg \in {None} \cup {Some(x) : x \in Spans(s)},
     l \in Lines(s), c \in Columns(s)}
  \cup {Report(FALSE, None, rg, 1, 1) :
          rg \in {None} \cup {Some(x) : x \in Spans(s)}}
\* A node the parser gives no raw, no range and no position.
BareReports(s) == {Report(FALSE, None, None, 1, 1)}

\* An operand: raw is the text of a span, range that span or missing, the
\* position anywhere.
LeftReports(s) ==
  {Report(TRUE, Some(Slice(s, sp[1], sp[2])),
          IF ranged THEN Some(sp) ELSE None, l, c) :
     sp \in Spans(s), ranged \in BOOLEAN, l \in Lines(s), c \in Columns(s)}
\* An operand reported exactly, or without a range.
RightReports(s) ==
  {Report(TRUE, Some(Slice(s, sp[1], sp[2])), Some(sp), 1, sp[1] + 1) :
     sp \in Spans(s)}
  \cup {Report(TRUE, Some(s), None, 1, 1)}

ReportsFor(s, t, i) ==
  CASE t[i].type \in {"Program", "Function", "BoundFunction", "Conditional",
                      "While", "ForIn"} -> WholeReports(s)
    [] t[i].type \in {"LogicalNotOp", "PlusOp"} -> BareReports(s)
    [] t[i].slot = "left" -> LeftReports(s)
    [] t[i].slot = "right" -> RightReports(s)
    [] OTHER -> FullReports(s)

NewNode(r) ==
  [hasRaw |-> r.hasRaw, raw |-> r.raw, range |-> r.range, line |-> r.line,
   column |-> r.column, parent |-> 0, scope |-> 0]

\* ------------------------------------------------------------ attachScope
\* new Scope(parent); processed records the nodes given to processNode.
NewScope(enclosing) == [parent |-> enclosing, processed |-> {}]

\* attachScope with the BoundFunction case left to the default branch.
CreatesScopeUnbound(type) == type \in {"Program", "Function"}

CreatesScope(type) == type \in {"Program", "Function", "BoundFunction"}

EnclosingScope(type, parentScope) ==
  IF type = "Program" THEN 0 ELSE parentScope

attachScope(t, ns, sc, n) ==
  LET type == t[n].type
      parentScope == IF ns[n].parent = 0 THEN 0 ELSE ns[ns[n].parent].scope
      id == IF CreatesScope(type) THEN Len(sc) + 1 ELSE parentScope
      sc1 == IF CreatesScope(type)
             THEN Append(sc, NewScope(EnclosingScope(type, parentScope)))
             ELSE sc
  IN [nodes |-> [ns EXCEPT ![n].scope = id],
      scopes |-> [sc1 EXCEPT ![id].processed = @ \cup {n}]]

\* --------------------------------------------------------------- fixRange
IsSlot(t, ns, n, ptype, slot) ==
  /\ ns[n].parent # 0
  /\ t[ns[n].parent].type = ptype
  /\ Child(t, ns[n].parent, slot) = n

\* node.parent.step === node
IsStep(t, ns, n) == ns[n].parent # 0 /\ Child(t, ns[n].parent, "step") = n

\* The negated condition takes raw, range, line and column of node.expression.
InheritExpression(node, inner) ==
  [node EXCEPT !.hasRaw = TRUE, !.raw = inner.raw, !.range = inner.range,
               !.line = inner.line, !.column = inner.column]

\* The binary operator rebuilt up to right.range[0] instead of right.range[1].
SynthesizeBinaryToRightStart(src, node, left, right) ==
  [node EXCEPT !.hasRaw = TRUE,
               !.raw = Some(Slice(src, left.range[1][1], right.range[1][1])),
               !.range = Some(<<left.range[1][1], right.range[1][1]>>),
               !.line = left.line, !.column = left.column]

\* The binary operator is rebuilt from left.range[0] and right.range[1].
SynthesizeBinary(src, node, left, right) ==
  [node EXCEPT !.hasRaw = TRUE,
               !.raw = Some(Slice(src, left.range[1][1], right.range[1][2])),
               !.range = Some(<<left.range[1][1], right.range[1][2]>>),
               !.line = left.line, !.column = left.column]

\* Lines 55-79: the skip rules and the recovery of a missing raw.
RecoverRaw(src, t, ns, n) ==
  LET node == ns[n]
      e == Child(t, n, "expression")
      l == Child(t, n, "left")
      r == Child(t, n, "right")
      out(o, nd) == [outcome |-> o, node |-> nd]
  IN IF node.range = None /\ t[n].type = "ConcatOp" THEN out("return", node)
     ELSE IF node.hasRaw THEN out("continue", node)
     ELSE IF IsSlot(t, ns, n, "While", "condition") THEN out("return", node)
     ELSE IF t[n].type = "LogicalNotOp" /\ node.parent = 0
          THEN out("TypeError", node)
     ELSE IF t[n].type = "LogicalNotOp"
             /\ IsSlot(t, ns, n, "Conditional", "condition")
          THEN (IF e = 0 THEN out("TypeError", node)
                ELSE out("continue", InheritExpression(node, ns[e])))
     ELSE IF l # 0 /\ r # 0
          THEN (IF ns[l].range = None \/ ns[r].range = None
                THEN out("TypeError", node)
                ELSE out("continue", SynthesizeBinary(src, node, ns[l], ns[r])))
     ELSE out("noRaw", node)

Fixed(src, node) == getOffset(src, node.line - 1, node.column - 1)

\* Lines 81-86: the first of fixed, fixed-1, fixed-2 where raw is found.
RECURSIVE SlideFrom(_, _, _, _)
SlideFrom(src, raw, fixed, slide) ==
  IF slide >= Window THEN None
  ELSE IF Slice(src, fixed - slide, fixed - slide + Len(raw)) = raw
       THEN Some(<<fixed - slide, fixed - slide + Len(raw)>>)
  ELSE SlideFrom(src, raw, fixed, slide + 1)

\* The search with the loop starting at slide = 1.
SearchRangeFromOne(src, raw, fixed) == SlideFrom(src, raw, fixed, 1)

SearchRange(src, raw, fixed) == SlideFrom(src, raw, fixed, 0)

\* Line 88 without the comparison of the range's text with raw.
MismatchRangeOnly(src, node) == node.range = None

\* Line 88: no range, or the range's text is not raw.
Mismatch(src, node) ==
  \/ node.range = None
  \/ node.raw[1] # Slice(src, node.range[1][1], node.range[1][2])

\* Lines 121-123: raw is wrapped end to end in one pair of parentheses.
IsWrapped(raw) ==
  /\ CharAt(raw, 0) = "("
  /\ findCounterpartCharacter("(", raw, 0) = Len(raw) - 1

\* Lines 124-128.
ShrinkNode(node, adjust) ==
  LET stripped == [node EXCEPT !.raw = Some(Slice(node.raw[1], 1, -1))]
  IN IF adjust
     THEN [stripped EXCEPT
             !.range = Some(<<node.range[1][1] + 1, node.range[1][2] - 1>>),
             !.column = node.column - 1]
     ELSE stripped

Thrown(kind, type, position) ==
  Some([kind |-> kind, type |-> type, position |-> position])

\* ------------------------------------------------------------------ parse
\* The parser's report for a node is fixed no later than the first read of
\* the node: when the walker reaches it, or when the walker reaches the
\* parent whose fixRange reads node.expression, node.left or node.right.
ReadBy(t, n) ==
  <<n>> \o (IF Child(t, n, "expression") = 0 THEN <<>>
            ELSE <<Child(t, n, "expression")>>)
        \o (IF Child(t, n, "left") = 0 THEN <<>> ELSE <<Child(t, n, "left")>>)
        \o (IF Child(t, n, "right") = 0 THEN <<>> ELSE <<Child(t, n, "right")>>)

RECURSIVE NoneYet(_)
NoneYet(n) == IF n = 0 THEN <<>> ELSE Append(NoneYet(n - 1), None)

RECURSIVE Parsed(_, _, _, _)
Parsed(s, t, rep, todo) ==
  IF todo = <<>> THEN {rep}
  ELSE IF rep[Head(todo)] # None THEN Parsed(s, t, rep, Tail(todo))
  ELSE UNION {Parsed(s, t, [rep EXCEPT ![Head(todo)] = Some(r)], Tail(todo)) :
                r \in ReportsFor(s, t, Head(todo))}

Unparsed == NewNode(Report(FALSE, None, None, 1, 1))

Init ==
  /\ source \in Sources
  /\ shape \in {Shapes[k] : k \in 1..Len(Shapes)}
  /\ reported = NoneYet(Len(shape))
  /\ nodes = [i \in 1..Len(shape) |-> Unparsed]
  /\ scopes = <<>>
  /\ cur = 1
  /\ pc = "attachScope"
  /\ adjustPosition = FALSE
  /\ rounds = 0
  /\ skipped = {}
  /\ error = None
  /\ query = None

\* The callback returns: the walker moves to the next node in pre-order.
Return ==
  /\ cur' = IF cur = Len(shape) THEN cur ELSE cur + 1
  /\ pc' = IF cur = Len(shape) THEN "done" ELSE "attachScope"

Throw(e) == error' = e /\ pc' = "threw" /\ UNCHANGED cur

\* traverse sets node.parent and calls the callback: attachScope(node).
Visit ==
  /\ pc = "attachScope"
  /\ \E rep \in Parsed(source, shape, reported, ReadBy(shape, cur)) :
       LET ast == [i \in 1..Len(shape) |->
                     IF reported[i] = None /\ rep[i] # None
                     THEN NewNode(rep[i][1]) ELSE nodes[i]]
           r == attachScope(shape, [ast EXCEPT ![cur].parent = shape[cur].up],
                            scopes, cur)
       IN reported' = rep /\ nodes' = r.nodes /\ scopes' = r.scopes
  /\ pc' = "fixRange"
  /\ rounds' = 0
  /\ UNCHANGED <<source, shape, cur, adjustPosition, skipped, error, query>>

\* fixRange, lines 55-79.
FixRange ==
  /\ pc = "fixRange"
  /\ LET r == RecoverRaw(source, shape, nodes, cur)
     IN CASE r.outcome = "return" ->
               /\ Return
               /\ skipped' = skipped \cup {cur}
               /\ UNCHANGED <<nodes, error>>
          [] r.outcome = "continue" ->
               /\ nodes' = [nodes EXCEPT ![cur] = r.node]
               /\ pc' = "search"
               /\ UNCHANGED <<cur, skipped, error>>
          [] r.outcome = "TypeError" ->
               /\ Throw(Thrown("TypeError", None, None))
               /\ UNCHANGED <<nodes, skipped>>
          [] OTHER ->
               /\ Throw(Thrown("noRaw", Some(shape[cur].type), None))
               /\ UNCHANGED <<nodes, skipped>>
  /\ UNCHANGED <<source, shape, reported, scopes, adjustPosition, rounds, query>>

\* fixRange, lines 80-86.
Search ==
  /\ pc = "search"
  /\ IF nodes[cur].raw = None
     THEN /\ Throw(Thrown("TypeError", None, None))
          /\ UNCHANGED nodes
     ELSE /\ LET found == SearchRange(source, nodes[cur].raw[1],
                                      Fixed(source, nodes[cur]))
             IN nodes' = IF found = None THEN nodes
                         ELSE [nodes EXCEPT ![cur].range = found]
          /\ pc' = "verify"
          /\ UNCHANGED <<cur, error>>
  /\ UNCHANGED <<source, shape, reported, scopes, adjustPosition, rounds,
                 skipped, query>>

\* fixRange, lines 88-104.
Verify ==
  /\ pc = "verify"
  /\ IF Mismatch(source, nodes[cur])
     THEN IF IsStep(shape, nodes, cur)
          THEN /\ Return
               /\ skipped' = skipped \cup {cur}
               /\ UNCHANGED adjustPosition
          ELSE /\ pc' = "shrinkPastParentheses"
               /\ adjustPosition' = FALSE
               /\ UNCHANGED <<cur, skipped>>
     ELSE /\ pc' = "shrinkPastParentheses"
          /\ adjustPosition' = TRUE
          /\ UNCHANGED <<cur, skipped>>
  /\ UNCHANGED <<source, shape, reported, nodes, scopes, rounds, error, query>>

\* shrinkPastParentheses, lines 120-135, and what its caller does with the
\* result: a true result returns, a false one throws (line 98) or ends the
\* opportunistic call of line 103.
Shrink ==
  /\ pc = "shrinkPastParentheses"
  /\ IF IsWrapped(nodes[cur].raw[1])
     THEN /\ nodes' = [nodes EXCEPT ![cur] = ShrinkNode(@, adjustPosition)]
          /\ rounds' = rounds + 1
          /\ pc' = "fixRange"
          /\ UNCHANGED <<cur, error>>
     ELSE IF adjustPosition
          THEN Return /\ UNCHANGED <<nodes, rounds, error>>
          ELSE /\ Throw(Thrown("mismatch", Some(shape[cur].type),
                               Some(<<nodes[cur].line, nodes[cur].column>>)))
               /\ UNCHANGED <<nodes, rounds>>
  /\ UNCHANGED <<source, shape, reported, scopes, adjustPosition, skipped, query>>

Next == Visit \/ FixRange \/ Search \/ Verify \/ Shrink

Spec == Init /\ [][Next]_vars

\* ===================================================== properties of parse
Indices == 1..Len(shape)
\* The callback has returned for node n.
Finished(n) == pc = "done" \/ n < cur
\* source.slice(range[0], range[1]) === raw
Exact(n) ==
  /\ nodes[n].range # None
  /\ nodes[n].raw # None
  /\ Slice(source, nodes[n].range[1][1], nodes[n].range[1][2]) = nodes[n].raw[1]
\* raw is found at offset o, and at no offset the search examines before o.
Matches(raw, o) == Slice(source, o, o + Len(raw)) = raw
FirstMatch(raw, candidate, o) ==
  /\ o \in {candidate, candidate - 1, candidate - 2}
  /\ Matches(raw, o)
  /\ \A q \in {candidate, candidate - 1, candidate - 2} : q > o => ~Matches(raw, q)
NoMatch(raw, candidate) ==
  \A q \in {candidate, candidate - 1, candidate - 2} : ~Matches(raw, q)
Candidate(line, column) == LineStarts(source)[line] + column - 1
\* text is "(" inner ")" where the first "(" closes at the last character.
Wrapped(text) ==
  /\ Len(text) >= 2
  /\ text[1] = "(" /\ text[Len(text)] = ")"
  /\ Cardinality({i \in 1..Len(text) : text[i] = "("})
       = Cardinality({i \in 1..Len(text) : text[i] = ")"})
  /\ \A k \in 1..(Len(text) - 1) :
       Cardinality({i \in 1..k : text[i] = "("})
         > Cardinality({i \in 1..k : text[i] = ")"})
Inner(text) == SubSeq(text, 2, Len(text) - 1)

\* C1: after the pass completes, every node that was not deliberately
\* skipped has a range whose text in the source is exactly its raw.
ByteExact ==
  pc = "done" => \A n \in Indices : n \notin skipped => Exact(n)

\* C1 witness: a completed pass whose last node went through a paren-shrink
\* round and ended with another raw and range than the parser reported.
ByteExactWitness ==
  /\ pc = "done" /\ rounds >= 1 /\ cur \notin skipped
  /\ reported[cur][1].hasRaw
  /\ reported[cur][1].range # None
  /\ reported[cur][1].range # nodes[cur].range
  /\ Exact(cur)

\* C2: an aborted pass carries an error of one of the two fatal kinds, and
\* the error names the offending node's type and its line and column.
FailureSurface ==
  pc = "threw" =>
    /\ error # None
    /\ error[1].kind \in {"noRaw", "mismatch"}
    /\ error[1].type = Some(shape[cur].type)
    /\ error[1].position = Some(<<nodes[cur].line, nodes[cur].column>>)

FunctionNodes == {n \in Indices : shape[n].type \in {"Function", "BoundFunction"}}

\* C3: after the pass over a tree rooted at a Program node, the Program's
\* scope has no enclosing scope, every Function/BoundFunction has a scope
\* of its own enclosed by its parent's scope, every other node shares its
\* parent's scope, and there are 1 + #Function/BoundFunction scopes.
ScopeChaining ==
  (pc = "done" /\ shape[1].type = "Program") =>
    /\ scopes[nodes[1].scope].parent = 0
    /\ \A n \in FunctionNodes :
         /\ scopes[nodes[n].scope].parent = nodes[shape[n].up].scope
         /\ \A m \in Indices : m < n => nodes[m].scope # nodes[n].scope
    /\ \A n \in Indices \ (FunctionNodes \cup {1}) :
         nodes[n].scope = nodes[shape[n].up].scope
    /\ Cardinality({nodes[n].scope : n \in Indices}) = 1 + Cardinality(FunctionNodes)
    /\ \A n \in Indices : n \in scopes[nodes[n].scope].processed

\* C3 witness: a completed pass over Program > Function > BoundFunction >
\* leaf, with three scopes chained leaf-to-root.
ScopeChainingWitness ==
  /\ pc = "done"
  /\ Cardinality(FunctionNodes) = 2
  /\ Len(scopes) = 3
  /\ nodes[4].scope = nodes[3].scope
  /\ scopes[nodes[3].scope].parent = nodes[2].scope
  /\ scopes[nodes[2].scope].parent = nodes[1].scope

\* C4: after the pass completes, every non-skipped node whose parent has a
\* byte-exact range lies within the parent's range.
RangeContainment ==
  pc = "done" =>
    \A n \in Indices :
      (/\ shape[n].up # 0
       /\ n \notin skipped
       /\ shape[n].up \notin skipped
       /\ Exact(shape[n].up))
      => /\ nodes[shape[n].up].range[1][1] <= nodes[n].range[1][1]
         /\ nodes[n].range[1][2] <= nodes[shape[n].up].range[1][2]

\* The parser gave node n a raw.
Reported(n) == reported[n] # None /\ reported[n][1].hasRaw
\* The parser gave node n no raw, and n is the condition of a Conditional.
NegatedCondition(n) ==
  /\ shape[n].type = "LogicalNotOp"
  /\ reported[n] # None /\ ~reported[n][1].hasRaw
  /\ shape[n].up # 0
  /\ shape[shape[n].up].type = "Conditional"
  /\ shape[n].slot = "condition"
\* The parser gave node n no raw, n has both operands, and n is neither a
\* While condition nor a negated condition.
BinaryWithoutRaw(n) ==
  /\ reported[n] # None /\ ~reported[n][1].hasRaw
  /\ Child(shape, n, "left") # 0 /\ Child(shape, n, "right") # 0
  /\ ~NegatedCondition(n)
  /\ ~(shape[n].up # 0 /\ shape[shape[n].up].type = "While"
       /\ shape[n].slot = "condition")

\* C6: a node whose reported raw is wrapped end to end in one pair of
\* parentheses and is found by the position search at [s, e) ends with the
\* raw without the pair and the range [s+1, e-1].
ParenShrinkResult ==
  \A n \in Indices :
    (Finished(n) /\ n \notin skipped /\ Reported(n)) =>
      LET raw0 == reported[n][1].raw[1]
          candidate == Candidate(reported[n][1].line, reported[n][1].column)
      IN \A s \in {candidate, candidate - 1, candidate - 2} :
           (Wrapped(raw0) /\ ~Wrapped(Inner(raw0)) /\ FirstMatch(raw0, candidate, s))
           => /\ nodes[n].raw = Some(Inner(raw0))
              /\ nodes[n].range = Some(<<s + 1, s + Len(raw0) - 1>>)

\* C7: a LogicalNotOp without raw that is the condition of a Conditional
\* does not abort the pass, whatever its inner expression (at worst the
\* text it inherits is not found, the documented mismatch), and ends with
\* the raw and range its inner expression ends with.
NegatedConditionInherits ==
  \A n \in Indices :
    NegatedCondition(n) =>
      /\ (pc = "threw" /\ cur = n) => error[1].kind = "mismatch"
      /\ pc = "done" =>
           /\ nodes[n].raw = nodes[Child(shape, n, "expression")].raw
           /\ nodes[n].range = nodes[Child(shape, n, "expression")].range

\* C9: when fixRange has recovered a node's raw and range from its children,
\* fixRange has already returned for every child it read.
ChildBeforeParent ==
  /\ (pc = "search" /\ rounds = 0 /\ BinaryWithoutRaw(cur)) =>
       /\ Finished(Child(shape, cur, "left"))
       /\ Finished(Child(shape, cur, "right"))
  /\ (pc = "search" /\ rounds = 0 /\ NegatedCondition(cur)) =>
       Finished(Child(shape, cur, "expression"))
  /\ (pc = "threw" /\ (BinaryWithoutRaw(cur) \/ NegatedCondition(cur))) =>
       error[1].kind # "TypeError"

\* The ranges the parser reported for the operands of n.
LeftRange(n) == reported[Child(shape, n, "left")][1].range
RightRange(n) == reported[Child(shape, n, "right")][1].range
\* n is rebuilt from operands [a,b] and [c,d] with a <= b <= c <= d.
Synthesized(n) ==
  /\ BinaryWithoutRaw(n)
  /\ LeftRange(n) # None /\ RightRange(n) # None
  /\ LeftRange(n)[1][1] <= LeftRange(n)[1][2]
  /\ LeftRange(n)[1][2] <= RightRange(n)[1][1]
  /\ RightRange(n)[1][1] <= RightRange(n)[1][2]
\* n has range [a, d], raw source[a:d] and the left operand's position.
SpansOperands(n) ==
  LET a == LeftRange(n)[1][1]
      d == RightRange(n)[1][2]
      left == reported[Child(shape, n, "left")][1]
  IN /\ nodes[n].range = Some(<<a, d>>)
     /\ nodes[n].raw = Some(Slice(source, a, d))
     /\ nodes[n].line = left.line /\ nodes[n].column = left.column
\* The search from the left operand's position leaves [a, d] alone, and
\* source[a:d] is not wrapped in parentheses.
StaysPut(n) ==
  LET a == LeftRange(n)[1][1]
      d == RightRange(n)[1][2]
      left == reported[Child(shape, n, "left")][1]
      raw0 == Slice(source, a, d)
      candidate == Candidate(left.line, left.column)
  IN /\ NoMatch(raw0, candidate) \/ FirstMatch(raw0, candidate, a)
     /\ ~Wrapped(raw0)

SearchPost ==
  LET raw == nodes[cur].raw[1]
      candidate == Candidate(nodes[cur].line, nodes[cur].column)
  IN \A o \in {candidate, candidate - 1, candidate - 2} :
       FirstMatch(raw, candidate, o) => nodes[cur].range = Some(<<o, o + Len(raw)>>)
NoMatchAt(n) ==
  NoMatch(nodes[n].raw[1], Candidate(nodes[n].line, nodes[n].column))

\* C10 as stated: the search sets range to the first match among candidate,
\* candidate-1, candidate-2; with no match the node goes to the fallback
\* policy, whether or not it already had a range.
PositionSearchOriginal ==
  /\ pc = "verify" => SearchPost
  /\ (pc = "shrinkPastParentheses" /\ NoMatchAt(cur)) => ~adjustPosition

\* C10 amended: the search sets range to the first match; with no match the
\* node keeps its range, and goes to the fallback policy (skip a step, else
\* shrink without position adjustment, else fatal error) only if it has no
\* range or the text at its range is not raw; with a byte-exact range it
\* goes on to the shrink with position adjustment.
PositionSearch ==
  /\ pc = "verify" =>
       /\ SearchPost
       /\ (NoMatchAt(cur) /\ rounds = 0 /\ Reported(cur))
            => nodes[cur].range = reported[cur][1].range
  /\ pc = "shrinkPastParentheses" =>
       /\ adjustPosition <=> Exact(cur)
       /\ ~adjustPosition => (NoMatchAt(cur) /\ shape[cur].slot # "step")
  /\ \A n \in skipped :
       (nodes[n].hasRaw /\ shape[n].type # "ConcatOp") =>
          (shape[n].slot = "step" /\ ~Exact(n) /\ NoMatchAt(n))
  /\ (pc = "threw" /\ error[1].kind = "mismatch") =>
       /\ NoMatchAt(cur) /\ ~Exact(cur) /\ shape[cur].slot # "step"
       /\ ~Wrapped(nodes[cur].raw[1])

\* C10 witness: the search matched nowhere, the range the parser reported is
\* byte-exact, and the node is in the shrink with position adjustment.
PositionSearchWitness ==
  /\ pc = "shrinkPastParentheses" /\ adjustPosition /\ rounds = 0
  /\ Reported(cur) /\ NoMatchAt(cur)
  /\ nodes[cur].range = reported[cur][1].range

\* ========================================================= isSurroundedBy
\* The bracket matcher started at range[0] instead of range[0] - 1.
isSurroundedByFromStart(node, left, src) ==
  IF CharAt(src, node.range[1][1] - 1) # left THEN FALSE
  ELSE findCounterpartCharacter(left, src, node.range[1][1]) = node.range[1][2]

isSurroundedBy(node, left, src) ==
  IF CharAt(src, node.range[1][1] - 1) # left THEN FALSE
  ELSE findCounterpartCharacter(left, src, node.range[1][1] - 1) = node.range[1][2]

OpenChars == {"(", "["}
SurroundSources == SeqsUpTo({"(", ")", "[", "]", "a"}, MaxLen + 1)

\* A caller holds a node with some range in some text.
SurroundInit ==
  /\ source \in SurroundSources
  /\ shape = <<N("Identifier", 0, "root")>>
  /\ \E sp \in Spans(source) :
       /\ reported = <<Some(Report(TRUE, Some(Slice(source, sp[1], sp[2])),
                                   Some(sp), 1, sp[1] + 1))>>
       /\ nodes = <<NewNode(reported[1][1])>>
  /\ scopes = <<>>
  /\ cur = 1
  /\ pc = "isSurroundedBy"
  /\ adjustPosition = FALSE
  /\ rounds = 0
  /\ skipped = {}
  /\ error = None
  /\ query = None

IsSurroundedByCall ==
  /\ pc = "isSurroundedBy"
  /\ \E left \in OpenChars :
       query' = Some([left |-> left,
                      result |-> isSurroundedBy(nodes[1], left, source)])
  /\ pc' = "returned"
  /\ UNCHANGED <<source, shape, reported, nodes, scopes, cur, adjustPosition,
                 rounds, skipped, error>>

SurroundNext == IsSurroundedByCall

SurroundSpec == SurroundInit /\ [][SurroundNext]_vars

\* The text from offset i to offset j holds as many left as closing
\* characters, and more left than closing ones in every proper prefix.
Opens(left, i, k) == Cardinality({x \in i..k : CharAt(source, x) = left})
Closes(left, i, k) ==
  Cardinality({x \in i..k : CharAt(source, x) = getCounterpart(left)})
Enclosed(left, i, j) ==
  /\ i >= 0 /\ j < Len(source) /\ i < j
  /\ CharAt(source, i) = left
  /\ Opens(left, i, j) = Closes(left, i, j)
  /\ \A k \in i..(j - 1) : Opens(left, i, k) > Closes(left, i, k)

\* C8: isSurroundedBy returns true exactly when the character before
\* range[0] is the opening character and the bracket matcher started there
\* returns range[1]; it returns false otherwise, and it leaves the node and
\* the source as they were.
SurroundedIff ==
  [][pc = "isSurroundedBy" =>
       /\ query'[1].result =
            (/\ CharAt(source, nodes[1].range[1][1] - 1) = query'[1].left
             /\ findCounterpartCharacter(query'[1].left, source,
                                         nodes[1].range[1][1] - 1)
                  = nodes[1].range[1][2])
       /\ query'[1].result =
            Enclosed(query'[1].left, nodes[1].range[1][1] - 1, nodes[1].range[1][2])
       /\ nodes' = nodes
       /\ source' = source]_vars

\* C8 witness: a call that returned true for a node of two characters or
\* more.
SurroundedWitness ==
  /\ pc = "returned"
  /\ query[1].result
  /\ nodes[1].range[1][2] - nodes[1].range[1][1] >= 2

====
